---- MODULE Spec2Model ----
(***************************************************************************)
(* A model of file_explorer.py: the JSON render cache (JSONDataCache), the *)
(* record viewer (display_data), the search engine (search_next) and the   *)
(* directory listing cache (FileCache).                                    *)
(*                                                                         *)
(* Text is modelled as a sequence of code points (ord(char)), so that the  *)
(* display width rule `ord(char) < 128` and substring containment are      *)
(* computed as the code computes them.  A raw record (one element of       *)
(* json_lines) is modelled by the value json.loads gives for it:           *)
(*   [k |-> "invalid"]                       text that is not JSON         *)
(*   [k |-> "str", s |-> <<code points>>]    a JSON string                 *)
(*   [k |-> "int", n |-> 0..]                a JSON integer                *)
(*   [k |-> "list", items |-> <<values>>]    a JSON array                  *)
(*   [k |-> "dict", keys |-> <<strings>>, vals |-> <<values>>]  an object  *)
(* Strings of the model hold no quote, backslash or control character, so  *)
(* json.dumps escapes nothing and the `\n` substitution of lines 72 and 94 *)
(* changes nothing.                                                        *)
(***************************************************************************)
EXTENDS Integers, Sequences, FiniteSets, TLC

VARIABLES
    max_size,        \* JSONDataCache.max_size
    full_cache,      \* JSONDataCache.full_cache: data_index -> lines
    skeleton_cache,  \* JSONDataCache.skeleton_cache: data_index -> lines
    access_order,    \* JSONDataCache.access_order
    json_lines,      \* the records loaded from the file (display_data)
    call,            \* the last get_lines call: its arguments, its result, and
                     \* whether _compute_lines ran (the recompute counter's step)
    hist,            \* the keys of the get_lines calls since the last clear
    searched,        \* the search_next call of the last key, if it made one:
                     \* its arguments and its result
    viewing,         \* TRUE while display_data runs
    rows, cols,      \* stdscr.getmaxyx()
    selected_data,   \* display_data: the record shown
    selected_mode,   \* display_data: index into mode_list
    start_line,      \* display_data: the scroll offset
    search_str,      \* display_data: the search buffer
    jump_line_str,   \* display_data: the jump buffer
    show_values,     \* display_data: full view (TRUE) or skeleton view
    lines,           \* display_data: the lines of the last redraw
    fs,              \* the directories on disk: path -> status, mtime, entries
    cache,           \* FileCache.cache: path -> (timestamp, file list)
    listed,          \* the last get_files call: what it found and what it did
    browsing,        \* TRUE while file_explorer runs
    raised,          \* the exception that ended file_explorer, "" while none did
    current_path,    \* file_explorer: the directory shown
    selected_file,   \* file_explorer: the index selected
    filter_str,      \* file_explorer: its search_str, the filter typed
    files,           \* file_explorer: the listing displayed (filtered)
    original_files,  \* file_explorer: the listing list_files got from the cache
    path_history,    \* file_explorer: path -> original_files, selected_index
    entered,         \* the directories this run went into from their parent
    loaded,          \* the last read of a record file: adapter, file, outcome
    wrapped          \* the last split_str call: its arguments and its result

cache_vars == <<max_size, full_cache, skeleton_cache, access_order>>
probe_vars == <<call, hist>>
search_vars == <<searched>>
view_vars == <<viewing, rows, cols, selected_data, selected_mode, start_line,
               search_str, jump_line_str, show_values, lines>>

file_vars == <<fs, cache, listed>>

browser_vars == <<browsing, raised, current_path, selected_file, filter_str, files,
                  original_files, path_history, entered>>

call_vars == <<loaded, wrapped>>

vars == <<cache_vars, json_lines, probe_vars, search_vars, view_vars, file_vars,
          browser_vars, call_vars>>

\* what the actions of each specification leave alone
outside_cache == <<search_vars, view_vars, file_vars, browser_vars, call_vars>>
outside_viewer == <<probe_vars, file_vars, browser_vars, call_vars>>
outside_files == <<cache_vars, json_lines, probe_vars, search_vars, view_vars,
                   browser_vars, call_vars>>
outside_browser == <<cache_vars, json_lines, probe_vars, search_vars, view_vars, listed,
                     call_vars>>
outside_calls == <<cache_vars, json_lines, probe_vars, search_vars, view_vars, file_vars,
                   browser_vars>>

----------------------------------------------------------------------------
(* Bounds of the model *)

MaxCapacity == 2     \* SpecCache: the largest max_size
MaxIndex == 2        \* SpecCache: the largest data_index
MaxCalls == 4        \* SpecCache: get_lines calls between two clears
MaxRecords == 2      \* SpecViewer: the most records of a file
MaxBuf == 1          \* SpecViewer: the longest search or jump buffer
MaxTime == 2         \* SpecFiles: the modification times are 1..MaxTime

----------------------------------------------------------------------------
(* Generic helpers *)

Max(a, b) == IF a >= b THEN a ELSE b
Min(a, b) == IF a <= b THEN a ELSE b

RECURSIVE Flatten(_)
Flatten(ss) == IF ss = <<>> THEN <<>> ELSE Head(ss) \o Flatten(Tail(ss))

Range(s) == {s[i] : i \in DOMAIN s}

IndexOf(s, x) == CHOOSE i \in DOMAIN s : s[i] = x /\ \A j \in 1..(i-1) : s[j] # x

RemoveFirst(s, x) ==
    LET i == IndexOf(s, x)
    IN  SubSeq(s, 1, i - 1) \o SubSeq(s, i + 1, Len(s))

----------------------------------------------------------------------------
(* Text constants, as code points *)

ErrInvalidJSON ==   \* "Error: Invalid JSON data."
    <<69, 114, 114, 111, 114, 58, 32, 73, 110, 118, 97, 108, 105, 100, 32,
      74, 83, 79, 78, 32, 100, 97, 116, 97, 46>>

ErrEmptyFile ==     \* "Error: Empty file."
    <<69, 114, 114, 111, 114, 58, 32, 69, 109, 112, 116, 121, 32, 102, 105,
      108, 101, 46>>

TypeName(kind) ==   \* type(x).__name__
    IF kind = "int" THEN <<105, 110, 116>> ELSE <<115, 116, 114>>

ErrNoCopy(kind) ==  \* "Error: '<type>' object has no attribute 'copy'"
    <<69, 114, 114, 111, 114, 58, 32, 39>> \o TypeName(kind) \o
    <<39, 32, 111, 98, 106, 101, 99, 116, 32, 104, 97, 115, 32, 110, 111, 32,
      97, 116, 116, 114, 105, 98, 117, 116, 101, 32, 39, 99, 111, 112, 121, 39>>

----------------------------------------------------------------------------
(* JSONDataCache.split_str *)

char_length_narrow(char) == 1

char_length(char) == IF char < 128 THEN 1 ELSE 2

RECURSIVE split_str_loop(_, _, _, _, _, _)
split_str_loop(s, n, i, result, current_str, length) ==
    IF i > Len(s) THEN Append(result, current_str)
    ELSE IF length + char_length(s[i]) <= n
         THEN split_str_loop(s, n, i + 1, result, Append(current_str, s[i]),
                             length + char_length(s[i]))
         ELSE split_str_loop(s, n, i + 1, Append(result, current_str), <<s[i]>>,
                             char_length(s[i]))

split_str(s, n) == split_str_loop(s, n, 1, <<>>, <<>>, 0)

----------------------------------------------------------------------------
(* json.dumps(value, ensure_ascii=False, indent=2), as the lines of its text *)

IsContainer(v) == v.k \in {"list", "dict"}

RECURSIVE IntText(_)
IntText(n) == IF n < 10 THEN <<48 + n>> ELSE IntText(n \div 10) \o <<48 + (n % 10)>>

Quoted(s) == <<34>> \o s \o <<34>>

Indent(level) == [i \in 1..(2 * level) |-> 32]

\* the lines of one member: `prefix` before the first line, a comma after the
\* last line unless the member is the last one
Member(prefix, ls, last) ==
    LET n == Len(ls)
    IN  [i \in 1..n |->
            (IF i = 1 THEN prefix ELSE <<>>) \o ls[i] \o
            (IF i = n /\ ~last THEN <<44>> ELSE <<>>)]

\* The first line carries no indentation (its container supplies it); the
\* following lines are indented absolutely.  A "type" value is a type object
\* of the skeleton: TypeDisplayJSONEncoder.default turns it into
\* {"__class__": name} and encode rewrites that text to the bare name.
RECURSIVE json_dumps(_, _)
json_dumps(v, level) ==
    CASE v.k = "str"  -> << Quoted(v.s) >>
      [] v.k = "int"  -> << IntText(v.n) >>
      [] v.k = "type" -> << TypeName(v.name) >>
      [] v.k = "list" ->
            IF v.items = <<>> THEN << <<91, 93>> >>
            ELSE << <<91>> >> \o
                 Flatten([i \in DOMAIN v.items |->
                     Member(Indent(level + 1), json_dumps(v.items[i], level + 1),
                            i = Len(v.items))]) \o
                 << Indent(level) \o <<93>> >>
      [] v.k = "dict" ->
            IF v.keys = <<>> THEN << <<123, 125>> >>
            ELSE << <<123>> >> \o
                 Flatten([i \in DOMAIN v.keys |->
                     Member(Indent(level + 1) \o Quoted(v.keys[i]) \o <<58, 32>>,
                            json_dumps(v.vals[i], level + 1),
                            i = Len(v.keys))]) \o
                 << Indent(level) \o <<125>> >>

----------------------------------------------------------------------------
(* JSONDataCache._compute_lines *)

\* replace_non_dict_with_none: the values of a dict that are not containers
\* become their type; in a list, `item = type(item)` rebinds the loop
\* variable only, so the items that are not containers stay as they are
RECURSIVE replace_non_dict_with_none(_)
replace_non_dict_with_none(data) ==
    CASE data.k = "dict" ->
            [data EXCEPT !.vals =
                [i \in DOMAIN data.vals |->
                    IF IsContainer(data.vals[i])
                    THEN replace_non_dict_with_none(data.vals[i])
                    ELSE [k |-> "type", name |-> data.vals[i].k]]]
      [] data.k = "list" ->
            [data EXCEPT !.items =
                [i \in DOMAIN data.items |->
                    IF IsContainer(data.items[i])
                    THEN replace_non_dict_with_none(data.items[i])
                    ELSE data.items[i]]]
      [] OTHER -> data

\* the lines of full_json_str and skeleton_json_str (lines 69-100):
\* json.loads fails on text that is not JSON; a str or an int has no .copy()
\* (line 92), and `except Exception` then replaces both texts
full_json_str(json_line) ==
    CASE json_line.k = "invalid" -> << ErrInvalidJSON >>
      [] IsContainer(json_line)  -> json_dumps(json_line, 0)
      [] OTHER                   -> << ErrNoCopy(json_line.k) >>

skeleton_json_str(json_line) ==
    CASE json_line.k = "invalid" -> << ErrInvalidJSON >>
      [] IsContainer(json_line)  -> json_dumps(replace_non_dict_with_none(json_line), 0)
      [] OTHER                   -> << ErrNoCopy(json_line.k) >>

wrap_lines(text_lines, width) ==
    Flatten([i \in DOMAIN text_lines |-> split_str(text_lines[i], width)])

render_lines(json_line, width) ==
    [full     |-> wrap_lines(full_json_str(json_line), width),
     skeleton |-> wrap_lines(skeleton_json_str(json_line), width)]

----------------------------------------------------------------------------
(* Records and terminal widths of the model *)

DocQ == [k |-> "list", items |-> << [k |-> "str", s |-> <<113>>] >>]       \* ["q"]

DocWide ==   \* {"a": "<five double-width characters>"}
    [k |-> "dict", keys |-> << <<97>> >>,
     vals |-> << [k |-> "str", s |-> <<20013, 20013, 20013, 20013, 20013>>] >>]

DocA == [k |-> "dict", keys |-> << <<97>> >>, vals |-> << [k |-> "int", n |-> 2] >>]  \* {"a": 2}

\* the terminal widths of SpecCache
Cols == {12, 14}

\* the terminal sizes of SpecViewer, (rows, cols): a small window and the
\* usual 24 x 80; the key display at column cols - 10 (line 471) needs
\* cols >= 10
TermSizes == {<<7, 12>>, <<24, 80>>}

\* _compute_lines on the records and widths of the model, computed once: the
\* function is pure, and the table only saves its evaluation in every state
Docs == {DocQ, DocA, DocWide}

Widths == Cols \cup {size[2] : size \in TermSizes}

rendered == [d \in Docs, w \in Widths |-> render_lines(d, w)]

compute_lines(json_line, width) ==
    IF json_line \in Docs /\ width \in Widths THEN rendered[json_line, width]
    ELSE render_lines(json_line, width)


----------------------------------------------------------------------------
(* JSONDataCache *)

Restrict(f, S) == [x \in S |-> f[x]]

\* a variant that leaves a key already present where it is (first in, first out)
touch_fifo(order, cache_key) ==
    IF cache_key \in Range(order) THEN order ELSE Append(order, cache_key)

\* lines 45-47: the key moves to the end of access_order
touch(order, cache_key) ==
    (IF cache_key \in Range(order) THEN RemoveFirst(order, cache_key) ELSE order)
        \o <<cache_key>>

\* a variant that lets one key more stay
evict_count_late(order, size) == Max(Len(order) - (size + 1), 0)

\* lines 50-53: how many keys `while len(access_order) > max_size` pops
evict_count(order, size) == Max(Len(order) - size, 0)

\* what get_lines returns: the cached lines when both caches hold the key
\* (lines 56-57), the computed lines otherwise (lines 60-65); the cols of the
\* call is read on a miss only
served(hit, cached, computed) == IF hit THEN cached ELSE computed

\* get_lines(data_index, cols, json_line) on the cache state c: the new cache
\* state, the lines returned and whether _compute_lines ran
get_lines(c, data_index, width, json_line) ==
    LET cache_key == data_index
        order1    == touch(c.access_order, cache_key)
        n         == evict_count(order1, c.max_size)
        old_keys  == {order1[i] : i \in 1..n}
        order2    == SubSeq(order1, n + 1, Len(order1))
        full1     == Restrict(c.full_cache, DOMAIN c.full_cache \ old_keys)
        skel1     == Restrict(c.skeleton_cache, DOMAIN c.skeleton_cache \ old_keys)
        hit       == cache_key \in DOMAIN full1 /\ cache_key \in DOMAIN skel1
        cached    == IF hit THEN [full |-> full1[cache_key], skeleton |-> skel1[cache_key]]
                     ELSE [full |-> <<>>, skeleton |-> <<>>]
        ls        == served(hit, cached, compute_lines(json_line, width))
    IN  [max_size       |-> c.max_size,
         access_order   |-> order2,
         full_cache     |-> IF hit THEN full1
                            ELSE [x \in DOMAIN full1 \cup {cache_key} |->
                                    IF x = cache_key THEN ls.full ELSE full1[x]],
         skeleton_cache |-> IF hit THEN skel1
                            ELSE [x \in DOMAIN skel1 \cup {cache_key} |->
                                    IF x = cache_key THEN ls.skeleton ELSE skel1[x]],
         full           |-> ls.full,
         skeleton       |-> ls.skeleton,
         computed       |-> ~hit]

\* JSONDataCache.clear
clear(c) ==
    [max_size |-> c.max_size, access_order |-> <<>>,
     full_cache |-> <<>>, skeleton_cache |-> <<>>]

\* the cache object of the current state
json_cache ==
    [max_size |-> max_size, access_order |-> access_order,
     full_cache |-> full_cache, skeleton_cache |-> skeleton_cache]

----------------------------------------------------------------------------
(* Values of the variables a specification leaves alone *)

NoSearch == [r |-> -1, l |-> 0, q |-> <<>>, ls |-> <<>>, found |-> <<0, 0>>]

\* the values the locals of display_data hold while it is not running
ViewerIdle ==
    /\ viewing = FALSE
    /\ rows = 0 /\ cols = 0
    /\ selected_data = 0 /\ selected_mode = 0 /\ start_line = 0
    /\ search_str = <<>> /\ jump_line_str = <<>>
    /\ show_values = TRUE
    /\ lines = <<>>

NoCall == [key |-> -1, width |-> 0, computed |-> FALSE, full |-> <<>>, skeleton |-> <<>>]

CacheProbeIdle == call = NoCall /\ hist = <<>>

NoListing == [path |-> "", entry |-> <<>>, raised |-> FALSE, reread |-> FALSE, files |-> <<>>]

FilesIdle == fs = <<>> /\ cache = <<>> /\ listed = NoListing

BrowserIdle ==
    /\ browsing = FALSE /\ raised = ""
    /\ current_path = <<>> /\ selected_file = 0 /\ filter_str = <<>>
    /\ files = <<>> /\ original_files = <<>> /\ path_history = <<>>
    /\ entered = {}

NoLoad == [adapter |-> "", file |-> <<>>, raised |-> FALSE, json_lines |-> <<>>]

NoWrap == [s |-> <<>>, n |-> 0, result |-> <<>>]

CallsIdle == loaded = NoLoad /\ wrapped = NoWrap

----------------------------------------------------------------------------
(* The cache alone: any sequence of get_lines and clear calls on the        *)
(* records of one file                                                      *)

CacheDocs == <<DocWide, DocQ, DocA>>

InitCache ==
    /\ max_size \in 1..MaxCapacity
    /\ full_cache = <<>>
    /\ skeleton_cache = <<>>
    /\ access_order = <<>>
    /\ json_lines = [i \in 1..(MaxIndex + 1) |-> CacheDocs[((i - 1) % Len(CacheDocs)) + 1]]
    /\ CacheProbeIdle
    /\ searched = NoSearch
    /\ ViewerIdle
    /\ FilesIdle
    /\ BrowserIdle
    /\ CallsIdle

GetLines(data_index, width) ==
    /\ Len(hist) < MaxCalls
    /\ LET r == get_lines(json_cache, data_index, width, json_lines[data_index + 1])
       IN  /\ full_cache' = r.full_cache
           /\ skeleton_cache' = r.skeleton_cache
           /\ access_order' = r.access_order
           /\ call' = [key |-> data_index, width |-> width, computed |-> r.computed,
                       full |-> r.full, skeleton |-> r.skeleton]
    /\ hist' = Append(hist, data_index)
    /\ UNCHANGED <<max_size, json_lines, outside_cache>>

Clear ==
    /\ full_cache' = clear(json_cache).full_cache
    /\ skeleton_cache' = clear(json_cache).skeleton_cache
    /\ access_order' = clear(json_cache).access_order
    /\ hist' = <<>>
    /\ UNCHANGED <<max_size, json_lines, call, outside_cache>>

CacheGet == \E data_index \in 0..MaxIndex, width \in Cols : GetLines(data_index, width)

NextCache == CacheGet \/ Clear

SpecCache == InitCache /\ [][NextCache]_vars

----------------------------------------------------------------------------
(* The search engine *)

\* s[a:] of Python: a negative index counts from the end, and both ends clip
PySliceFrom(s, a) ==
    LET from == IF a < 0 THEN Max(Len(s) + a, 0) ELSE Min(a, Len(s))
    IN  SubSeq(s, from + 1, Len(s))

\* a variant that drops nothing
PyDropNone(s) == s

\* s[:-1] of Python
PyDropLast(s) == IF s = <<>> THEN <<>> ELSE SubSeq(s, 1, Len(s) - 1)

\* target_string in string
Contains(string, target_string) ==
    \E i \in 0..(Len(string) - Len(target_string)) :
        SubSeq(string, i + 1, i + Len(target_string)) = target_string

\* a variant without the test for an empty target: '' is in every string
search_in_list_no_empty_test(string_list, target_string) ==
    IF \E index \in DOMAIN string_list : Contains(string_list[index], target_string)
    THEN CHOOSE index \in DOMAIN string_list :
            /\ Contains(string_list[index], target_string)
            /\ \A j \in 1..(index - 1) : ~Contains(string_list[j], target_string)
    ELSE -1

\* lines 316-324: 0 for an empty target, else the first line that contains
\* the target (counted from 1), else -1
search_in_list(string_list, target_string) ==
    IF target_string = <<>> THEN 0
    ELSE IF \E index \in DOMAIN string_list : Contains(string_list[index], target_string)
         THEN CHOOSE index \in DOMAIN string_list :
                 /\ Contains(string_list[index], target_string)
                 /\ \A j \in 1..(index - 1) : ~Contains(string_list[j], target_string)
         ELSE -1

\* a variant that searches from the cursor line itself
RECURSIVE search_next_at_cursor(_, _, _, _, _)
search_next_at_cursor(records, sel, ls, start, query) ==
    IF sel < Len(records)
    THEN LET line_diff == search_in_list(PySliceFrom(ls, start), query)
         IN  IF line_diff # -1 THEN <<sel, start + line_diff - 1>>
             ELSE search_next_at_cursor(records, sel + 1, ls, 0, query)
    ELSE <<0, 0>>

\* search_next(json_lines, selected_data, lines, start_line, search_str):
\* the loop keeps the `lines` it was given for every record it moves on to
RECURSIVE search_next(_, _, _, _, _)
search_next(records, sel, ls, start, query) ==
    IF sel < Len(records)
    THEN LET line_diff == search_in_list(PySliceFrom(ls, start + 1), query)
         IN  IF line_diff # -1 THEN <<sel, start + line_diff>>
             ELSE search_next(records, sel + 1, ls, 0, query)
    ELSE <<0, 0>>

----------------------------------------------------------------------------
(* The viewer: display_data *)

\* SpecViewer: max_size of the cache display_data makes (line 428).  The
\* program's 50 is a bound here, below MaxRecords, so that a file of the model
\* overflows the cache as a file of 51 records overflows the program's
ViewerMaxSize == 1

ViewDocs == {DocQ, DocA}

\* the record files of the model: every sequence of at most MaxRecords records
Files == UNION {[1..n -> ViewDocs] : n \in 0..MaxRecords}

\* the printable keys of the model: "2", a digit that DocA shows in its line 1
Chars == {50}

\* load_json_data with a cache: json_lines[selected_data] raises IndexError
\* when the file has no record, and the cache is then not called
load_json_data(c, records, sel, width) ==
    IF sel < Len(records)
    THEN get_lines(c, sel, width, records[sel + 1])
    ELSE [max_size |-> c.max_size, access_order |-> c.access_order,
          full_cache |-> c.full_cache, skeleton_cache |-> c.skeleton_cache,
          full |-> <<ErrEmptyFile>>, skeleton |-> <<ErrEmptyFile>>,
          computed |-> FALSE]

\* lines 450-457: the top of the loop loads the record shown from cache state
\* c and keeps the lines of the active view; r is the one result of the one
\* call
Redraw(c, records, sel, width, show) ==
    \E r \in {load_json_data(c, records, sel, width)} :
        /\ full_cache' = r.full_cache
        /\ skeleton_cache' = r.skeleton_cache
        /\ access_order' = r.access_order
        /\ lines' = IF show THEN r.full ELSE r.skeleton

\* lines 488-497: KEY_DOWN (step 1) and KEY_UP (step -1)
scroll(start, n_lines, n_rows, step) ==
    LET m == Max(n_lines - (n_rows - 6), 1)
    IN  IF start >= m THEN n_lines - (n_rows - 6) - 1
        ELSE (start + step) % m

\* int(jump_line_str): the buffer holds digits only; int('') raises ValueError
RECURSIVE int(_)
int(digits) ==
    IF Len(digits) = 1 THEN digits[1] - 48
    ELSE 10 * int(SubSeq(digits, 1, Len(digits) - 1)) + (digits[Len(digits)] - 48)

mode == IF selected_mode = 0 THEN "SEARCH" ELSE "JUMP"

\* lines 426-449: display_data starts with a new cache, reads the file and
\* resets its locals; lines 450-457 draw record 0
Open ==
    /\ ~viewing
    /\ viewing' = TRUE
    /\ \E size \in TermSizes : rows' = size[1] /\ cols' = size[2]
    /\ \E file \in Files : json_lines' = file
    /\ max_size' = ViewerMaxSize
    /\ selected_data' = 0 /\ selected_mode' = 0 /\ start_line' = 0
    /\ search_str' = <<>> /\ jump_line_str' = <<>> /\ show_values' = TRUE
    /\ Redraw([max_size |-> ViewerMaxSize, access_order |-> <<>>,
               full_cache |-> <<>>, skeleton_cache |-> <<>>],
              json_lines', 0, cols', TRUE)
    /\ searched' = NoSearch
    /\ UNCHANGED outside_viewer

\* KEY_RESIZE matches no branch: the loop re-reads the size and redraws
Resize ==
    /\ viewing
    /\ \E size \in TermSizes : rows' = size[1] /\ cols' = size[2] /\ size # <<rows, cols>>
    /\ Redraw(json_cache, json_lines, selected_data, cols', show_values)
    /\ searched' = NoSearch
    /\ UNCHANGED <<max_size, json_lines, outside_viewer, viewing, selected_data, selected_mode,
                   start_line, search_str, jump_line_str, show_values>>

\* lines 482-484
KeyRight ==
    /\ viewing
    /\ selected_data' = Min(selected_data + 1, Max(Len(json_lines) - 1, 0))
    /\ start_line' = 0
    /\ Redraw(json_cache, json_lines, selected_data', cols, show_values)
    /\ searched' = NoSearch
    /\ UNCHANGED <<max_size, json_lines, outside_viewer, viewing, rows, cols, selected_mode,
                   search_str, jump_line_str, show_values>>

\* lines 485-487
KeyLeft ==
    /\ viewing
    /\ selected_data' = Max(selected_data - 1, 0)
    /\ start_line' = 0
    /\ Redraw(json_cache, json_lines, selected_data', cols, show_values)
    /\ searched' = NoSearch
    /\ UNCHANGED <<max_size, json_lines, outside_viewer, viewing, rows, cols, selected_mode,
                   search_str, jump_line_str, show_values>>

\* lines 488-492
KeyDown ==
    /\ viewing
    /\ start_line' = scroll(start_line, Len(lines), rows, 1)
    /\ Redraw(json_cache, json_lines, selected_data, cols, show_values)
    /\ searched' = NoSearch
    /\ UNCHANGED <<max_size, json_lines, outside_viewer, viewing, rows, cols, selected_data,
                   selected_mode, search_str, jump_line_str, show_values>>

\* lines 493-497
KeyUp ==
    /\ viewing
    /\ start_line' = scroll(start_line, Len(lines), rows, -1)
    /\ Redraw(json_cache, json_lines, selected_data, cols, show_values)
    /\ searched' = NoSearch
    /\ UNCHANGED <<max_size, json_lines, outside_viewer, viewing, rows, cols, selected_data,
                   selected_mode, search_str, jump_line_str, show_values>>

\* lines 498-500: ESC returns from display_data; its locals and its cache die
KeyEsc ==
    /\ viewing
    /\ viewing' = FALSE
    /\ rows' = 0 /\ cols' = 0
    /\ selected_data' = 0 /\ selected_mode' = 0 /\ start_line' = 0
    /\ search_str' = <<>> /\ jump_line_str' = <<>> /\ show_values' = TRUE
    /\ lines' = <<>>
    /\ json_lines' = <<>>
    /\ full_cache' = <<>> /\ skeleton_cache' = <<>> /\ access_order' = <<>>
    /\ searched' = NoSearch
    /\ UNCHANGED <<max_size, outside_viewer>>

\* lines 501-502, then 430-457: Ctrl+A leaves the inner loop; the outer loop
\* reads the file again (whatever it holds by now) and resets the locals; the
\* cache made at line 428 is kept as it is
KeyCtrlA ==
    /\ viewing
    /\ \E file \in Files : json_lines' = file
    /\ selected_data' = 0 /\ selected_mode' = 0 /\ start_line' = 0
    /\ search_str' = <<>> /\ jump_line_str' = <<>> /\ show_values' = TRUE
    /\ Redraw(json_cache, json_lines', 0, cols, TRUE)
    /\ searched' = NoSearch
    /\ UNCHANGED <<max_size, outside_viewer, viewing, rows, cols>>

\* lines 503-510: Ctrl+Z clears the cache and loads the record shown; the
\* top of the loop then loads it once more
KeyCtrlZ ==
    /\ viewing
    /\ \E r \in {load_json_data(clear(json_cache), json_lines, selected_data, cols)} :
           Redraw([max_size |-> r.max_size, access_order |-> r.access_order,
                   full_cache |-> r.full_cache, skeleton_cache |-> r.skeleton_cache],
                  json_lines, selected_data, cols, show_values)
    /\ searched' = NoSearch
    /\ UNCHANGED <<max_size, json_lines, outside_viewer, viewing, rows, cols, selected_data,
                   selected_mode, start_line, search_str, jump_line_str, show_values>>

KEY_TAB == 9
KEY_IC == 331
KEY_BACKSPACE == 263

\* lines 518-522 and 530-534: what the branch of the mode in force makes of a
\* key other than Enter: the search buffer takes the keys lo..hi = 32..126, the
\* jump buffer the digits 48..57, Backspace drops the last character
after_key_from_tab(buffer, key, lo, hi) ==
    IF KEY_TAB <= key /\ key <= hi THEN Append(buffer, key)
    ELSE IF key = KEY_BACKSPACE \/ key = 8 THEN PyDropLast(buffer)
    ELSE buffer

after_key(buffer, key, lo, hi) ==
    IF lo <= key /\ key <= hi THEN Append(buffer, key)
    ELSE IF key = KEY_BACKSPACE \/ key = 8 THEN PyDropLast(buffer)
    ELSE buffer

\* lines 511-513, then the `if mode ==` of line 518, which is no elif: the
\* key goes through the branch of the new mode as well
KeyTab ==
    /\ viewing
    /\ selected_mode' = (selected_mode + 1) % 2
    /\ search_str' = IF mode' = "SEARCH" THEN after_key(search_str, KEY_TAB, 32, 126)
                     ELSE search_str
    /\ jump_line_str' = IF mode' = "JUMP" THEN after_key(jump_line_str, KEY_TAB, 48, 57)
                        ELSE jump_line_str
    /\ Redraw(json_cache, json_lines, selected_data, cols, show_values)
    /\ searched' = NoSearch
    /\ UNCHANGED <<max_size, json_lines, outside_viewer, viewing, rows, cols, selected_data,
                   start_line, show_values>>

\* lines 514-516, then the branch of the mode at line 518
KeyInsert ==
    /\ viewing
    /\ show_values' = ~show_values
    /\ start_line' = 0
    /\ search_str' = IF mode = "SEARCH" THEN after_key(search_str, KEY_IC, 32, 126)
                     ELSE search_str
    /\ jump_line_str' = IF mode = "JUMP" THEN after_key(jump_line_str, KEY_IC, 48, 57)
                        ELSE jump_line_str
    /\ Redraw(json_cache, json_lines, selected_data, cols, show_values')
    /\ searched' = NoSearch
    /\ UNCHANGED <<max_size, json_lines, outside_viewer, viewing, rows, cols, selected_data,
                   selected_mode>>

\* lines 519-520 and 531-532: a printable key goes to the search buffer in
\* SEARCH mode; in JUMP mode a digit goes to the jump buffer and any other
\* key is dropped
KeyChar(key) ==
    /\ viewing
    /\ IF mode = "SEARCH"
       THEN /\ Len(search_str) < MaxBuf
            /\ search_str' = IF 32 <= key /\ key <= 126 THEN Append(search_str, key)
                             ELSE search_str
            /\ UNCHANGED jump_line_str
       ELSE /\ Len(jump_line_str) < MaxBuf
            /\ jump_line_str' = IF 48 <= key /\ key <= 57 THEN Append(jump_line_str, key)
                                ELSE jump_line_str
            /\ UNCHANGED search_str
    /\ Redraw(json_cache, json_lines, selected_data, cols, show_values)
    /\ searched' = NoSearch
    /\ UNCHANGED <<max_size, json_lines, outside_viewer, viewing, rows, cols, selected_data,
                   selected_mode, start_line, show_values>>

\* lines 521-522 and 533-534
KeyBackspace ==
    /\ viewing
    /\ IF mode = "SEARCH"
       THEN search_str' = PyDropLast(search_str) /\ UNCHANGED jump_line_str
       ELSE jump_line_str' = PyDropLast(jump_line_str) /\ UNCHANGED search_str
    /\ Redraw(json_cache, json_lines, selected_data, cols, show_values)
    /\ searched' = NoSearch
    /\ UNCHANGED <<max_size, json_lines, outside_viewer, viewing, rows, cols, selected_data,
                   selected_mode, start_line, show_values>>

\* lines 523-529: Enter in SEARCH mode
SearchEnter ==
    /\ viewing
    /\ mode = "SEARCH"
    /\ LET found == search_next(json_lines, selected_data, lines, start_line, search_str)
       IN  /\ selected_data' = found[1] /\ start_line' = found[2]
           /\ searched' = [r |-> selected_data, l |-> start_line, q |-> search_str,
                           ls |-> lines, found |-> found]
    /\ Redraw(json_cache, json_lines, selected_data', cols, show_values)
    /\ UNCHANGED <<max_size, json_lines, outside_viewer, viewing, rows, cols, selected_mode,
                   search_str, jump_line_str, show_values>>

\* lines 535-543: Enter in JUMP mode
JumpEnter ==
    /\ viewing
    /\ mode = "JUMP"
    /\ IF jump_line_str = <<>>
       THEN UNCHANGED <<selected_data, start_line, jump_line_str>>
       ELSE LET target_line == int(jump_line_str) - 1
            IN  /\ IF 0 <= target_line /\ target_line < Len(json_lines)
                   THEN selected_data' = target_line /\ start_line' = 0
                   ELSE UNCHANGED <<selected_data, start_line>>
                /\ jump_line_str' = <<>>
    /\ Redraw(json_cache, json_lines, selected_data', cols, show_values)
    /\ searched' = NoSearch
    /\ UNCHANGED <<max_size, json_lines, outside_viewer, viewing, rows, cols, selected_mode,
                   search_str, show_values>>

KeyPrintable == \E key \in Chars : KeyChar(key)

InitViewer ==
    /\ max_size = ViewerMaxSize
    /\ full_cache = <<>>
    /\ skeleton_cache = <<>>
    /\ access_order = <<>>
    /\ json_lines = <<>>
    /\ CacheProbeIdle
    /\ searched = NoSearch
    /\ ViewerIdle
    /\ FilesIdle
    /\ BrowserIdle
    /\ CallsIdle

NextViewer ==
    \/ Open
    \/ Resize
    \/ KeyRight
    \/ KeyLeft
    \/ KeyDown
    \/ KeyUp
    \/ KeyEsc
    \/ KeyCtrlA
    \/ KeyCtrlZ
    \/ KeyTab
    \/ KeyInsert
    \/ KeyPrintable
    \/ KeyBackspace
    \/ SearchEnter
    \/ JumpEnter

SpecViewer == InitViewer /\ [][NextViewer]_vars

----------------------------------------------------------------------------
(* The search on its own: Enter held down in SEARCH mode, from every        *)
(* position of every file                                                   *)

\* display_data in SEARCH mode with a query typed, showing record
\* selected_data of a file at scroll offset start_line: an offset of the
\* record's lines, or one of the negative offsets that lines 488-497 leave
InitSearch ==
    /\ \E file \in Files, size \in TermSizes :
          /\ json_lines = file
          /\ rows = size[1] /\ cols = size[2]
          /\ selected_data \in 0..Max(Len(file) - 1, 0)
          /\ \E r \in {load_json_data([max_size |-> ViewerMaxSize, access_order |-> <<>>,
                                       full_cache |-> <<>>, skeleton_cache |-> <<>>],
                                      file, selected_data, size[2])} :
                /\ full_cache = r.full_cache
                /\ skeleton_cache = r.skeleton_cache
                /\ access_order = r.access_order
                /\ lines = r.full
                /\ start_line \in Min(Len(r.full) - (size[1] - 6) - 1, 0)..(Len(r.full) - 1)
    /\ max_size = ViewerMaxSize
    /\ viewing = TRUE
    /\ selected_mode = 0
    /\ search_str \in UNION {[1..n -> Chars] : n \in 0..MaxBuf}
    /\ jump_line_str = <<>>
    /\ show_values = TRUE
    /\ searched = NoSearch
    /\ CacheProbeIdle
    /\ FilesIdle
    /\ BrowserIdle
    /\ CallsIdle

\* every key is Enter, and an Enter that changes the state is not put off for
\* ever
SpecSearch == InitSearch /\ [][SearchEnter]_vars /\ WF_vars(SearchEnter)

----------------------------------------------------------------------------
(* The directory listing cache: FileCache *)

\* a < b for strings, as Python orders them: by code point, a proper prefix first
LexLess(a, b) ==
    \E i \in 1..(Min(Len(a), Len(b)) + 1) :
        /\ \A j \in 1..(i - 1) : a[j] = b[j]
        /\ \/ i > Len(a) /\ i <= Len(b)
           \/ i <= Len(a) /\ i <= Len(b) /\ a[i] < b[i]

\* paths.sort() on the names os.listdir gives, in any order
RECURSIVE sorted(_)
sorted(names) ==
    IF names = {} THEN <<>>
    ELSE LET first == CHOOSE x \in names : \A y \in names : x = y \/ LexLess(x, y)
         IN  <<first>> \o sorted(names \ {first})

DotDot == <<46, 46, 47>>    \* "../"

\* lines 158-164: ['../'] + folders + files of a directory's entries
listing(entries) ==
    LET paths == sorted({e.name : e \in entries})
        kind(f) == (CHOOSE e \in entries : e.name = f).kind
        is_dir(f) == kind(f) = "dir"
        is_file(f) == kind(f) = "file"
        folders == SelectSeq(paths, is_dir)
        regular == SelectSeq(paths, is_file)
    IN  <<DotDot>> \o [i \in DOMAIN folders |-> folders[i] \o <<47>>] \o regular

\* a variant that never compares the times
cached_any_time(c, path, current_time) == path \in DOMAIN c

\* lines 151-153: the path is cached and its timestamp is the current
\* modification time
cached_now(c, path, current_time) ==
    path \in DOMAIN c /\ c[path].time = current_time

\* FileCache.get_files(path) on cache c and disk state `disk`: the new cache,
\* whether the call raised, whether os.listdir was called, and the list
\* returned.  os.path.getmtime (line 149) is outside the try and raises for a
\* path that is not there; os.listdir raises for a directory that may not be
\* read, and `except (OSError, PermissionError)` returns ['../'] without
\* touching the cache.
get_files(c, disk, path) ==
    IF disk[path].status = "removed"
    THEN [cache |-> c, raised |-> TRUE, reread |-> FALSE, files |-> <<>>]
    ELSE LET current_time == disk[path].mtime
         IN  IF cached_now(c, path, current_time)
             THEN [cache |-> c, raised |-> FALSE, reread |-> FALSE, files |-> c[path].files]
             ELSE IF disk[path].status = "denied"
                  THEN [cache |-> c, raised |-> FALSE, reread |-> TRUE, files |-> <<DotDot>>]
                  ELSE LET result == listing(disk[path].entries)
                       IN  [cache |-> [x \in DOMAIN c \cup {path} |->
                                          IF x = path
                                          THEN [time |-> current_time, files |-> result]
                                          ELSE c[x]],
                            raised |-> FALSE, reread |-> TRUE, files |-> result]

----------------------------------------------------------------------------
(* The listing cache alone: get_files calls interleaved with changes of the *)
(* directories on disk                                                      *)

Paths == {"/d", "/d/e"}

\* directory contents of the model: names with what os.path.isdir and
\* os.path.isfile say of them ("other": neither, a broken link)
DirEmpty == {}

DirOne == {[name |-> <<97>>, kind |-> "file"]}                       \* a

DirMixed ==                                                          \* b/ B a, and c
    {[name |-> <<98>>, kind |-> "dir"], [name |-> <<97>>, kind |-> "file"],
     [name |-> <<66>>, kind |-> "file"], [name |-> <<99>>, kind |-> "other"]}

Contents == {DirEmpty, DirOne, DirMixed}

InitFiles ==
    /\ fs \in [Paths -> [status : {"ok"}, mtime : {1}, entries : Contents]]
    /\ cache = <<>>
    /\ listed = NoListing
    /\ max_size = 0
    /\ full_cache = <<>>
    /\ skeleton_cache = <<>>
    /\ access_order = <<>>
    /\ json_lines = <<>>
    /\ CacheProbeIdle
    /\ searched = NoSearch
    /\ ViewerIdle
    /\ BrowserIdle
    /\ CallsIdle

\* a call of get_files(path); a call that raises ends the program, and the
\* model keeps the state to show what the call met
GetFiles(path) ==
    /\ LET r == get_files(cache, fs, path)
       IN  /\ cache' = r.cache
           /\ listed' = [path |-> path,
                         entry |-> IF path \in DOMAIN cache THEN <<cache[path]>> ELSE <<>>,
                         raised |-> r.raised, reread |-> r.reread, files |-> r.files]
    /\ UNCHANGED <<fs, outside_files>>

\* the directory's entries change, and its modification time with them (to
\* any other value: a clock may be set back, a time may be set by hand)
DirChange(path) ==
    /\ fs[path].status # "removed"
    /\ \E t \in 1..MaxTime, entries \in Contents :
          /\ t # fs[path].mtime
          /\ fs' = [fs EXCEPT ![path].mtime = t, ![path].entries = entries]
    /\ listed' = NoListing
    /\ UNCHANGED <<cache, outside_files>>

\* chmod: the directory may no longer be read, or may be read again; its
\* modification time stays
Chmod(path) ==
    /\ fs[path].status # "removed"
    /\ fs' = [fs EXCEPT ![path].status = IF @ = "ok" THEN "denied" ELSE "ok"]
    /\ listed' = NoListing
    /\ UNCHANGED <<cache, outside_files>>

\* the directory is removed
Remove(path) ==
    /\ fs[path].status # "removed"
    /\ fs' = [fs EXCEPT ![path].status = "removed"]
    /\ listed' = NoListing
    /\ UNCHANGED <<cache, outside_files>>

\* a directory of that name is made again, empty
Mkdir(path) ==
    /\ fs[path].status = "removed"
    /\ \E t \in 1..MaxTime :
          fs' = [fs EXCEPT ![path] = [status |-> "ok", mtime |-> t, entries |-> DirEmpty]]
    /\ listed' = NoListing
    /\ UNCHANGED <<cache, outside_files>>

FilesGet == \E path \in Paths : GetFiles(path)
FilesChange == \E path \in Paths : DirChange(path)
FilesChmod == \E path \in Paths : Chmod(path)
FilesRemove == \E path \in Paths : Remove(path)
FilesMkdir == \E path \in Paths : Mkdir(path)

NextFiles == FilesGet \/ FilesChange \/ FilesChmod \/ FilesRemove \/ FilesMkdir

SpecFiles == InitFiles /\ [][NextFiles]_vars

----------------------------------------------------------------------------
(* The directory browser: list_files and file_explorer *)

\* paths are the sequences of their components: <<>> is "/"
NameB == <<66>>                                  \* "B"
Nameb == <<98>>                                  \* "b"
NameA == <<97>>                                  \* "a"
NameJ == <<106, 46, 106, 115, 111, 110>>         \* "j.json"

RootPath == <<>>
PathB == <<NameB>>
Pathb == <<Nameb>>

\* str.lower() on the ASCII letters
lower(s) == [i \in DOMAIN s |-> IF 65 <= s[i] /\ s[i] <= 90 THEN s[i] + 32 ELSE s[i]]

\* line 190: search_str.lower() in path.lower()
matches(path, search) == Contains(lower(path), lower(search))

\* lines 184-196: the paths shown, the whole list when nothing is typed
filtered(paths, search) ==
    IF search = <<>> THEN paths
    ELSE LET keep(path) == matches(path, search)
         IN  SelectSeq(paths, keep)

\* list_files(current_path, search_str, file_cache): what it returns, the
\* cache after it, and whether get_files raised
list_files(c, disk, path, search) ==
    LET r == get_files(c, disk, path)
    IN  [raised |-> r.raised, cache |-> r.cache, original_files |-> r.files,
         paths |-> filtered(r.files, search)]

EndsWith(s, suffix) ==
    Len(s) >= Len(suffix) /\ SubSeq(s, Len(s) - Len(suffix) + 1, Len(s)) = suffix

\* os.path.normpath(os.path.join(current_path, entry)) for an entry of a listing
join(path, entry) ==
    IF entry = DotDot
    THEN IF path = <<>> THEN <<>> ELSE SubSeq(path, 1, Len(path) - 1)
    ELSE Append(path, IF EndsWith(entry, <<47>>) THEN PyDropLast(entry) ELSE entry)

\* os.path.isdir and os.path.isfile, on the disk as it is now
isdir(disk, path) == path \in DOMAIN disk /\ disk[path].status # "removed"

isfile(disk, path) ==
    /\ path # <<>>
    /\ isdir(disk, SubSeq(path, 1, Len(path) - 1))
    /\ \E e \in disk[SubSeq(path, 1, Len(path) - 1)].entries :
          e.name = path[Len(path)] /\ e.kind = "file"

\* line 635: the extensions display_data is called for
is_data_file(path) ==
    \/ EndsWith(path[Len(path)], <<46, 106, 115, 111, 110, 108>>)      \* .jsonl
    \/ EndsWith(path[Len(path)], <<46, 106, 115, 111, 110>>)           \* .json
    \/ EndsWith(path[Len(path)], <<46, 116, 120, 116>>)                \* .txt

\* lines 585-592 and 616-623: on leaving a directory, the index in its
\* original_files of the name selected is kept as its selected_index
save_selected(history, path, shown, sel) ==
    IF /\ path \in DOMAIN history
       /\ shown # <<>> /\ 0 <= sel /\ sel < Len(shown)
       /\ shown[sel + 1] \in Range(history[path].original_files)
    THEN [history EXCEPT ![path].selected_index =
             IndexOf(history[path].original_files, shown[sel + 1]) - 1]
    ELSE history

\* lines 596-599 and 627-630: the selected_index kept for the path
restore_selected(history, path) ==
    IF path \in DOMAIN history THEN history[path].selected_index ELSE 0

\* lines 643-649: the listing is drawn again and the history takes its
\* original_files; get_files raising ends the process
Refresh(path, sel, search, history) ==
    LET r == list_files(cache, fs, path, search)
    IN  IF r.raised
        THEN /\ raised' = "FileNotFoundError" /\ browsing' = FALSE
             /\ path_history' = history
             /\ UNCHANGED <<cache, files, original_files>>
        ELSE /\ cache' = r.cache
             /\ files' = r.paths
             /\ original_files' = r.original_files
             /\ path_history' =
                   IF path \in DOMAIN history
                   THEN [history EXCEPT ![path].original_files = r.original_files]
                   ELSE [x \in DOMAIN history \cup {path} |->
                            IF x = path
                            THEN [original_files |-> r.original_files, selected_index |-> sel]
                            ELSE history[x]]
             /\ UNCHANGED <<browsing, raised>>

\* an exception leaves file_explorer: its locals stay as they were
Raise(exception) ==
    /\ raised' = exception /\ browsing' = FALSE
    /\ UNCHANGED <<current_path, selected_file, filter_str, files, original_files,
                   path_history, cache, entered>>

----------------------------------------------------------------------------
(* The browser on a small tree: "/" holds the directory b and, at times,    *)
(* the directory B; b holds j.json and, at times, a                         *)

Dir(name) == [name |-> name, kind |-> "dir"]
File(name) == [name |-> name, kind |-> "file"]

RootEntries == {{Dir(Nameb)}, {Dir(NameB), Dir(Nameb)}}

bEntries == {{File(NameJ)}, {File(NameA), File(NameJ)}}

\* the keys typed into the filter: "b"
FilterChars == {98}

\* the disks the browser may start on; modification times start at 1
Disks ==
    {[p \in {RootPath, PathB, Pathb} |->
         IF p = RootPath THEN [status |-> "ok", mtime |-> 1, entries |-> re]
         ELSE IF p = Pathb THEN [status |-> "ok", mtime |-> 1, entries |-> be]
         ELSE [status |-> IF Dir(NameB) \in re THEN "ok" ELSE "removed",
               mtime |-> 1, entries |-> {}]] :
       re \in RootEntries, be \in bEntries}

InitBrowser ==
    /\ fs \in Disks
    /\ cache = <<>>
    /\ listed = NoListing
    /\ max_size = 0
    /\ full_cache = <<>>
    /\ skeleton_cache = <<>>
    /\ access_order = <<>>
    /\ json_lines = <<>>
    /\ CacheProbeIdle
    /\ searched = NoSearch
    /\ ViewerIdle
    /\ BrowserIdle
    /\ CallsIdle

\* lines 557-567: file_explorer starts in the working directory
Start ==
    /\ ~browsing /\ raised = ""
    /\ \E cwd \in DOMAIN fs :
          /\ isdir(fs, cwd)
          /\ current_path' = cwd
          /\ selected_file' = 0
          /\ filter_str' = <<>>
          /\ browsing' = TRUE
          /\ LET r == list_files(<<>>, fs, cwd, <<>>)
             IN  /\ cache' = r.cache
                 /\ files' = r.paths
                 /\ original_files' = r.original_files
                 /\ path_history' = [x \in {cwd} |->
                        [original_files |-> r.original_files, selected_index |-> 0]]
    /\ UNCHANGED <<fs, raised, entered, outside_browser>>

\* lines 574-576: a printable key
BrowserChar(key) ==
    /\ browsing
    /\ 32 <= key /\ key <= 126
    /\ Len(filter_str) < MaxBuf
    /\ filter_str' = Append(filter_str, key)
    /\ selected_file' = 0
    /\ Refresh(current_path, 0, filter_str', path_history)
    /\ UNCHANGED <<fs, current_path, entered, outside_browser>>

\* lines 577-600: Backspace shortens the filter, or goes up when it is empty
BrowserBackspace ==
    /\ browsing
    /\ IF filter_str # <<>>
       THEN /\ filter_str' = PyDropLast(filter_str)
            /\ selected_file' = 0
            /\ UNCHANGED current_path
            /\ Refresh(current_path, 0, filter_str', path_history)
       ELSE LET history == save_selected(path_history, current_path, files, selected_file)
                parent == join(current_path, DotDot)
            IN  /\ current_path' = parent
                /\ selected_file' = restore_selected(history, parent)
                /\ filter_str' = <<>>
                /\ Refresh(parent, selected_file', <<>>, history)
    /\ UNCHANGED <<fs, entered, outside_browser>>

\* lines 601-602: ESC ends the process
BrowserEsc ==
    /\ browsing
    /\ browsing' = FALSE
    /\ current_path' = <<>> /\ selected_file' = 0 /\ filter_str' = <<>>
    /\ files' = <<>> /\ original_files' = <<>> /\ path_history' = <<>>
    /\ entered' = {}
    /\ cache' = <<>>
    /\ UNCHANGED <<fs, raised, outside_browser>>

\* lines 603-610: the arrow keys move the selection modulo len(files)
Move(step) ==
    /\ browsing
    /\ IF files = <<>>
       THEN Raise("ZeroDivisionError")
       ELSE /\ selected_file' = (selected_file + step) % Len(files)
            /\ UNCHANGED <<current_path, filter_str>>
            /\ Refresh(current_path, selected_file', filter_str, path_history)
    /\ UNCHANGED <<fs, entered, outside_browser>>

BrowserRight == \E size \in TermSizes : Move(size[1] - 3)
BrowserLeft == \E size \in TermSizes : Move(-(size[1] - 3))
BrowserUp == Move(-1)
BrowserDown == Move(1)

\* lines 611-640: Enter goes into the directory selected, or shows the file
\* selected; display_data is taken as a whole, the user leaving it with ESC
BrowserEnter ==
    /\ browsing
    /\ IF files = <<>>
       THEN /\ UNCHANGED <<current_path, selected_file, filter_str, entered>>
            /\ Refresh(current_path, selected_file, filter_str, path_history)
       ELSE IF selected_file >= Len(files)
       THEN Raise("IndexError")
       ELSE LET entry == files[selected_file + 1]
                new_path == join(current_path, entry)
                history == save_selected(path_history, current_path, files, selected_file)
            IN  IF isdir(fs, new_path)
                THEN /\ current_path' = new_path
                     /\ selected_file' = IF entry = DotDot
                                         THEN restore_selected(history, new_path)
                                         ELSE 0
                     /\ filter_str' = <<>>
                     /\ entered' = IF entry = DotDot THEN entered
                                   ELSE entered \cup {new_path}
                     /\ Refresh(new_path, selected_file', <<>>, history)
                ELSE /\ UNCHANGED <<current_path, selected_file, filter_str, entered>>
                     /\ Refresh(current_path, selected_file, filter_str, path_history)
    /\ UNCHANGED <<fs, outside_browser>>

BrowserPrintable == \E key \in FilterChars : BrowserChar(key)

\* the entries of b change, and its modification time moves on
DiskChange ==
    /\ fs[Pathb].mtime < MaxTime
    /\ \E entries \in bEntries :
          /\ entries # fs[Pathb].entries
          /\ fs' = [fs EXCEPT ![Pathb].mtime = @ + 1, ![Pathb].entries = entries]
    /\ UNCHANGED <<cache, browser_vars, outside_browser>>

\* the directory B is made in "/" or removed from it; the modification time
\* of "/" moves on
DiskToggle ==
    /\ fs[RootPath].mtime < MaxTime
    /\ fs' = [fs EXCEPT
          ![RootPath].mtime = @ + 1,
          ![RootPath].entries = IF Dir(NameB) \in @ THEN @ \ {Dir(NameB)}
                                ELSE @ \cup {Dir(NameB)},
          ![PathB].status = IF @ = "ok" THEN "removed" ELSE "ok"]
    /\ UNCHANGED <<cache, browser_vars, outside_browser>>

NextBrowser ==
    \/ Start
    \/ BrowserPrintable
    \/ BrowserBackspace
    \/ BrowserEsc
    \/ BrowserRight
    \/ BrowserLeft
    \/ BrowserUp
    \/ BrowserDown
    \/ BrowserEnter
    \/ DiskChange
    \/ DiskToggle

SpecBrowser == InitBrowser /\ [][NextBrowser]_vars

----------------------------------------------------------------------------
(* The record files: read_jsonl, read_json, read_txt *)

\* a text that is no JSON, and the one record str(e) that read_json and
\* read_txt return for the exception e
NotJSON == [k |-> "invalid", error |-> ""]

Message(exception) == [k |-> "invalid", error |-> exception]

DocNone == [k |-> "list", items |-> <<>>]                                   \* []

\* a file is missing (open raises) or holds lines; a line is its fields,
\* the texts between its tabs
Fields == {DocQ, DocA, DocNone, NotJSON}

Lines == {<<f>> : f \in Fields} \cup {<<f, g>> : f \in Fields, g \in Fields}

RecordFiles ==
    {[status |-> "missing", lines |-> <<>>]} \cup
    {[status |-> "ok", lines |-> ls] : ls \in UNION {[1..n -> Lines] : n \in 0..MaxRecords}}

\* a line as one text: JSON when it is one field of JSON
raw(line) == IF Len(line) = 1 THEN line[1] ELSE NotJSON

\* lines 398-401: no try around open
read_jsonl(file) ==
    IF file.status = "missing"
    THEN [raised |-> TRUE, json_lines |-> <<>>]
    ELSE [raised |-> FALSE, json_lines |-> [i \in DOMAIN file.lines |-> raw(file.lines[i])]]

\* lines 404-414: json.load takes the whole file as one JSON value
read_json(file) ==
    IF file.status = "missing"
    THEN [raised |-> FALSE, json_lines |-> << Message("FileNotFoundError") >>]
    ELSE IF Len(file.lines) = 1 /\ raw(file.lines[1]).k # "invalid"
         THEN LET json_data == raw(file.lines[1])
              IN  [raised |-> FALSE,
                   json_lines |-> IF json_data.k = "list" THEN json_data.items
                                  ELSE << json_data >>]
         ELSE [raised |-> FALSE, json_lines |-> << Message("JSONDecodeError") >>]

\* lines 417-423: the second field of every line; a line with no tab raises
\* IndexError, which is caught for the whole file
read_txt(file) ==
    IF file.status = "missing"
    THEN [raised |-> FALSE, json_lines |-> << Message("FileNotFoundError") >>]
    ELSE IF \E i \in DOMAIN file.lines : Len(file.lines[i]) < 2
         THEN [raised |-> FALSE, json_lines |-> << Message("IndexError") >>]
         ELSE [raised |-> FALSE, json_lines |-> [i \in DOMAIN file.lines |-> file.lines[i][2]]]

\* lines 431-436: display_data picks the adapter by the extension
read_file(adapter, file) ==
    CASE adapter = "jsonl" -> read_jsonl(file)
      [] adapter = "json"  -> read_json(file)
      [] OTHER             -> read_txt(file)

InitLoad ==
    /\ max_size = 0
    /\ full_cache = <<>>
    /\ skeleton_cache = <<>>
    /\ access_order = <<>>
    /\ json_lines = <<>>
    /\ CacheProbeIdle
    /\ searched = NoSearch
    /\ ViewerIdle
    /\ FilesIdle
    /\ BrowserIdle
    /\ CallsIdle

\* display_data reads the file it was opened on
ReadFile ==
    /\ loaded = NoLoad
    /\ \E adapter \in {"jsonl", "json", "txt"}, file \in RecordFiles :
          LET r == read_file(adapter, file)
          IN  loaded' = [adapter |-> adapter, file |-> file, raised |-> r.raised,
                         json_lines |-> r.json_lines]
    /\ UNCHANGED <<wrapped, outside_calls>>

\* Escape leaves display_data, and the records with it
CloseFile ==
    /\ loaded # NoLoad
    /\ loaded' = NoLoad
    /\ UNCHANGED <<wrapped, outside_calls>>

NextLoad == ReadFile \/ CloseFile

SpecLoad == InitLoad /\ [][NextLoad]_vars

----------------------------------------------------------------------------
(* The text wrapper on its own: split_str on strings of narrow and wide     *)
(* characters                                                               *)

MaxLen == 5          \* SpecWrap: the longest string wrapped
MaxWidth == 3        \* SpecWrap: the largest width n

\* "a" and a double-width character
WrapChars == {97, 20013}

Strings == UNION {[1..n -> WrapChars] : n \in 0..MaxLen}

InitWrap == InitLoad

SplitStr ==
    /\ \E s \in Strings, n \in 1..MaxWidth :
          wrapped' = [s |-> s, n |-> n, result |-> split_str(s, n)]
    /\ UNCHANGED <<loaded, outside_calls>>

NextWrap == SplitStr

SpecWrap == InitWrap /\ [][NextWrap]_vars

----------------------------------------------------------------------------
(* _compute_lines on its own: the rendering of parsed JSON values with up   *)
(* to two levels of objects and arrays                                      *)

MaxItems == 2        \* SpecSkeleton: the most members of an object or array

\* the values 1 and "x"; the arrays [], [1], [1, "x"], ... and the objects
\* {}, {"a": 1}, {"a": 1, "b": "x"}, ...; and the arrays and objects of up to
\* MaxItems of all of these
JsonValues ==
    LET leaves == {[k |-> "int", n |-> 1], [k |-> "str", s |-> <<120>>]}
        names == <<97, 98, 99, 100>>
        list(items) == [k |-> "list", items |-> items]
        dict(vals) == [k |-> "dict", keys |-> [i \in DOMAIN vals |-> <<names[i]>>],
                       vals |-> vals]
        mixed(n) == [i \in 1..n |-> IF i % 2 = 1 THEN [k |-> "int", n |-> 1]
                                    ELSE [k |-> "str", s |-> <<120>>]]
        inner == {list(mixed(n)) : n \in 0..MaxItems} \cup
                 {dict(mixed(n)) : n \in 0..MaxItems}
        members == UNION {[1..n -> leaves \cup inner] : n \in 0..MaxItems}
    IN  leaves \cup {list(items) : items \in members} \cup {dict(vals) : vals \in members}

\* one call of _compute_lines(json_line, 80) on the text of a value; the
\* function is pure, so a behaviour makes the one call
ComputeLines ==
    /\ call = NoCall
    /\ \E json_line \in JsonValues :
          \E r \in {render_lines(json_line, 80)} :
             /\ json_lines' = << json_line >>
             /\ call' = [key |-> 0, width |-> 80, computed |-> TRUE,
                         full |-> r.full, skeleton |-> r.skeleton]
    /\ UNCHANGED <<cache_vars, hist, outside_cache>>

NextSkeleton == ComputeLines

SpecSkeleton == InitLoad /\ [][NextSkeleton]_vars

----------------------------------------------------------------------------
(* Claims about the cache, under SpecCache *)

\* the position of the last access to key k in the call history h
LastAccess(h, k) == CHOOSE i \in DOMAIN h : h[i] = k /\ \A j \in (i + 1)..Len(h) : h[j] # k

\* the n keys of h accessed most recently: fewer than n other keys were
\* accessed after the key's last access
MostRecent(h, n) ==
    {k \in Range(h) : Cardinality({h[j] : j \in (LastAccess(h, k) + 1)..Len(h)}) < n}

\* C1: eviction is least-recently-used.  After any sequence of get_lines
\* calls the cached keys are exactly the max_size keys whose last access is
\* the most recent (so a miss on a full cache removed the one key whose last
\* access is oldest), and a call recomputes exactly when its key was not among
\* the max_size most recently accessed keys before it.
C1_LeastRecentlyUsedEviction ==
    /\ DOMAIN full_cache = MostRecent(hist, max_size)
    /\ DOMAIN skeleton_cache = MostRecent(hist, max_size)
    /\ hist # <<>> =>
          /\ call.key = hist[Len(hist)]
          /\ call.computed = (call.key \notin MostRecent(SubSeq(hist, 1, Len(hist) - 1), max_size))

\* C1 witness: a full cache took max_size + 1 distinct keys, the oldest one is
\* gone, and the last call was a hit on a key inserted before the eviction.
C1_Witness ==
    /\ max_size >= 2
    /\ Cardinality(Range(hist)) > max_size
    /\ Cardinality(DOMAIN full_cache) = max_size
    /\ hist[1] \notin DOMAIN full_cache
    /\ ~call.computed
    /\ call.key # hist[1]

\* C2: the number of cached records never exceeds max_size, in full_cache
\* and in skeleton_cache.
C2_CacheSizeBounded ==
    /\ Cardinality(DOMAIN full_cache) <= max_size
    /\ Cardinality(DOMAIN skeleton_cache) <= max_size

\* C2 witness: the cache is full and a further distinct key has been requested.
C2_Witness ==
    /\ Cardinality(DOMAIN full_cache) = max_size
    /\ Cardinality(Range(hist)) > max_size

\* C3 (as claimed): the lines get_lines returns are the record's rendering
\* wrapped at the cols passed in that call.
C3_NeverStaleWidth ==
    call.key >= 0 =>
        /\ call.full = compute_lines(json_lines[call.key + 1], call.width).full
        /\ call.skeleton = compute_lines(json_lines[call.key + 1], call.width).skeleton

----------------------------------------------------------------------------
(* Claims about the viewer and the search engine, under SpecViewer *)

\* the active view of record r of the loaded file, rendered at `width`
ActiveView(r, width) ==
    IF show_values THEN compute_lines(json_lines[r + 1], width).full
    ELSE compute_lines(json_lines[r + 1], width).skeleton

\* C4 (as claimed): the refresh reloads the records and clears the cache, so
\* the lines displayed are always a rendering of the loaded raw record shown,
\* never a cache entry computed from the file as it was before the refresh.
C4_RefreshClearsCache ==
    (viewing /\ selected_data < Len(json_lines)) =>
        \E size \in TermSizes : lines = ActiveView(selected_data, size[2])

\* 0-based line numbers of the lines of ls that contain query q
MatchLines(ls, q) == {j \in 0..(Len(ls) - 1) : Contains(ls[j + 1], q)}

SetMin(S) == CHOOSE x \in S : \A y \in S : x <= y

\* records after r whose active view contains q
LaterMatches(r, q) ==
    {k \in (r + 1)..(Len(json_lines) - 1) : MatchLines(ActiveView(k, cols), q) # {}}

\* the last key was Enter in SEARCH mode, from a line of a record of the file
SearchedFrom == searched.r >= 0 /\ searched.r < Len(json_lines) /\ searched.l >= 0

\* C5 (as claimed): a non-empty query that does not occur after line l of
\* record r is found in the first later record whose active view contains it,
\* at the first line of that record containing it (line 0 included).
C5_SearchContinuesIntoLaterRecords ==
    (/\ SearchedFrom
     /\ searched.q # <<>>
     /\ \A j \in MatchLines(searched.ls, searched.q) : j <= searched.l
     /\ LaterMatches(searched.r, searched.q) # {}) =>
        LET r2 == SetMin(LaterMatches(searched.r, searched.q))
        IN  searched.found = <<r2, SetMin(MatchLines(ActiveView(r2, cols), searched.q))>>

\* C6 (as claimed): when no line after l of record r and no line of any later
\* record contains the non-empty query, the result is the sentinel (0, 0), for
\* every r; an occurrence at or before line l of record r is no match.
C6_SentinelOnExhaustion ==
    (/\ SearchedFrom
     /\ searched.q # <<>>
     /\ \A j \in MatchLines(searched.ls, searched.q) : j <= searched.l
     /\ LaterMatches(searched.r, searched.q) = {}) =>
        searched.found = <<0, 0>>

\* C7 (as claimed): when some line after the cursor line l of the view shown
\* contains the non-empty query, the result is (r, j) with j the smallest line
\* number greater than l whose line contains it.
C7_NextMatchInCurrentRecord ==
    (/\ searched.r >= 0 /\ searched.r < Len(json_lines)
     /\ searched.q # <<>>
     /\ \E j \in MatchLines(searched.ls, searched.q) : j > searched.l) =>
        searched.found =
            <<searched.r, SetMin({j \in MatchLines(searched.ls, searched.q) : j > searched.l})>>

\* C8: an empty query is a no-op success.  From every position (r, l) with r a
\* record of the file, search_next returns (r, l), and Enter in SEARCH mode
\* with an empty buffer leaves the record index and the scroll offset as they
\* were.
C8_EmptyQueryIsNoOp ==
    (searched.r >= 0 /\ searched.r < Len(json_lines) /\ searched.q = <<>>) =>
        /\ searched.found = <<searched.r, searched.l>>
        /\ selected_data = searched.r
        /\ start_line = searched.l

\* C8 witness: Enter was pressed with an empty buffer at a position other
\* than (0, 0).
C8_Witness ==
    /\ searched.r > 0
    /\ searched.l > 0
    /\ searched.q = <<>>
    /\ selected_data = searched.r
    /\ start_line = searched.l

----------------------------------------------------------------------------
(* Claims about the listing cache, under SpecFiles *)

\* C9: get_files serves the cached listing of a path exactly when the
\* directory's modification time equals the time stored with it, and then
\* without reading the directory; with no entry or another time it reads the
\* directory again and, when the read succeeds, stores the current
\* modification time with the listing.  So a listing served from the cache
\* was captured under the current modification time.
C9_ListingInvalidatedByModTime ==
    (listed.path # "" /\ fs[listed.path].status # "removed") =>
        LET path == listed.path
            current_time == fs[path].mtime
        IN  /\ ~listed.raised
            /\ IF listed.entry # <<>> /\ listed.entry[1].time = current_time
               THEN /\ ~listed.reread
                    /\ listed.files = listed.entry[1].files
                    /\ cache[path] = listed.entry[1]
               ELSE /\ listed.reread
                    /\ fs[path].status = "ok" =>
                          /\ listed.files = listing(fs[path].entries)
                          /\ cache[path] = [time |-> current_time, files |-> listed.files]

\* a stale entry met a readable directory with another modification time and
\* other entries, and was replaced
C9_Witness ==
    /\ listed.path # ""
    /\ listed.entry # <<>>
    /\ fs[listed.path].status = "ok"
    /\ listed.entry[1].time # fs[listed.path].mtime
    /\ listed.entry[1].files # listed.files
    /\ cache[listed.path].time = fs[listed.path].mtime

\* C10: a directory that cannot be listed gives the single-entry list ["../"]
\* and the call never raises.
C10_ListingFailureGivesParentOnly ==
    listed.path # "" =>
        /\ ~listed.raised
        /\ fs[listed.path].status # "ok" => listed.files = <<DotDot>>

----------------------------------------------------------------------------
(* Claims about the directory browser, under SpecBrowser *)

\* a step of the browser that went up to the parent directory
WentUp ==
    /\ browsing /\ browsing'
    /\ current_path # <<>>
    /\ current_path' = join(current_path, DotDot)

\* the name the history of `path` holds as selected when it was left
LeftName(path) ==
    LET h == path_history[path]
    IN  IF h.selected_index < Len(h.original_files)
        THEN h.original_files[h.selected_index + 1]
        ELSE <<>>

\* C11 (as claimed): going up to a directory visited before puts the selection
\* on the entry of its current listing that has the name selected when it was
\* left, if that name is still listed, and on index 0 otherwise; the filter is
\* empty afterwards.
C11_GoUpRestoresByName ==
    [][(WentUp /\ current_path' \in DOMAIN path_history) =>
          /\ filter_str' = <<>>
          /\ selected_file' =
                IF LeftName(current_path') \in Range(original_files')
                THEN IndexOf(original_files', LeftName(current_path')) - 1
                ELSE 0]_vars

\* a step of the browser that went into a subdirectory it had entered before
WentBackIn ==
    /\ browsing /\ browsing'
    /\ current_path' # current_path
    /\ current_path = join(current_path', DotDot)
    /\ current_path' \in entered
    /\ current_path' \in DOMAIN path_history

\* C12 (as claimed): after entering D, selecting the entry named n, going up
\* and entering D again, the selection in D is on the entry named n, provided
\* n is still listed in D.
C12_RoundTripRestoresSelection ==
    [][WentBackIn =>
          (LeftName(current_path') \in Range(original_files') =>
              selected_file' = IndexOf(original_files', LeftName(current_path')) - 1)]_vars

\* a step that typed a printable character into the filter
TypedInto(key) == browsing /\ filter_str' = Append(filter_str, key)

\* the entries of a listing whose name contains `search`, whatever the case
\* of the letters, in the order of the listing
Narrowed(paths, search) ==
    LET has(name) == \E i \in 0..(Len(name) - Len(search)) :
                        \A j \in 1..Len(search) : lower(name)[i + j] = lower(search)[j]
    IN  SelectSeq(paths, has)

\* the listing get_files owes for a path: the cached one while the modification
\* time is the cached one (C9), else its entries, and "../" alone for a
\* directory that cannot be listed (C10)
Unfiltered(path) ==
    IF fs[path].status # "ok" THEN <<DotDot>>
    ELSE IF path \in DOMAIN cache /\ cache[path].time = fs[path].mtime
         THEN cache[path].files
         ELSE listing(fs[path].entries)

\* C13 (as claimed): a printable character is appended to the filter, the
\* selection becomes 0, and the listing displayed is then the entries of the
\* unfiltered listing of the directory whose name contains the filter,
\* case-insensitively and in their order; the cached listing stays whole.
C13_FilterNarrowsListing ==
    [][\A key \in FilterChars :
          TypedInto(key) =>
              /\ selected_file' = 0
              /\ files' = Narrowed(Unfiltered(current_path), filter_str')
              /\ original_files' = Unfiltered(current_path)
              /\ current_path \in DOMAIN cache' =>
                    cache'[current_path].files = Unfiltered(current_path)]_vars

\* C14: Backspace with a non-empty filter drops the filter's last character,
\* sets the selection to 0 and stays in the directory; with an empty filter
\* it goes up to the parent directory.  After every step that enters a
\* directory or goes up the filter is empty.
C14_BackspaceShortensOrGoesUp ==
    [][/\ BrowserBackspace =>
             IF filter_str # <<>>
             THEN /\ filter_str' = SubSeq(filter_str, 1, Len(filter_str) - 1)
                  /\ selected_file' = 0
                  /\ current_path' = current_path
             ELSE /\ current_path' = IF current_path = <<>> THEN <<>>
                                     ELSE SubSeq(current_path, 1, Len(current_path) - 1)
                  /\ filter_str' = <<>>
       /\ (browsing /\ current_path' # current_path) => filter_str' = <<>>
       /\ (BrowserEnter /\ files # <<>> /\ selected_file < Len(files)
              /\ isdir(fs, join(current_path, files[selected_file + 1]))) =>
             filter_str' = <<>>]_vars

\* C14 witness: the browser went into b and is in "/" again, which a go-up
\* alone brings about; b is in the history and the filter is empty
C14_Witness ==
    /\ browsing
    /\ Pathb \in entered
    /\ current_path = RootPath
    /\ filter_str = <<>>
    /\ path_history[RootPath].selected_index > 0

\* C22 (as claimed): after every step of the browser the selection is an
\* index of the listing displayed, whenever that listing is not empty.
C22_SelectionInsideListing ==
    (browsing /\ files # <<>>) => (0 <= selected_file /\ selected_file < Len(files))

\* C16 (as claimed): no input event ends the browser with an unhandled
\* error, whatever the listing holds; the browser is left by Escape only.
C16_NoUnhandledError ==
    [][browsing => /\ raised' = ""
                   /\ ~browsing' => BrowserEsc]_vars

----------------------------------------------------------------------------
(* Claims about the record files, under SpecLoad *)

\* the file could not be opened, or its text could not be parsed by the adapter
Unreadable(adapter, file) ==
    \/ file.status = "missing"
    \/ adapter = "json" /\ ~(Len(file.lines) = 1 /\ Len(file.lines[1]) = 1
                              /\ file.lines[1][1].k # "invalid")
    \/ adapter = "txt" /\ \E i \in DOMAIN file.lines : Len(file.lines[i]) < 2

\* C15 (as claimed): every load gives at least one record and lets no
\* exception out; a file that cannot be opened or parsed gives exactly one
\* record, an error message.
C15_LoadYieldsARecord ==
    loaded.adapter # "" =>
        /\ ~loaded.raised
        /\ Len(loaded.json_lines) >= 1
        /\ Unreadable(loaded.adapter, loaded.file) =>
              /\ Len(loaded.json_lines) = 1
              /\ loaded.json_lines[1].k = "invalid"
              /\ loaded.json_lines[1].error # ""

----------------------------------------------------------------------------
(* Claims about the keys of the viewer, under SpecViewer and SpecSearch *)

\* C17 (as claimed): Enter in JUMP mode on a buffer of digits that reads n
\* selects record min(max(n - 1, 0), recordCount - 1) and resets the scroll
\* offset to 0; nothing is raised.  Stated for a file that holds a record.
C17_JumpClampsIntoRange ==
    [][(JumpEnter /\ jump_line_str # <<>> /\ json_lines # <<>>) =>
          /\ viewing'
          /\ selected_data' = Min(Max(int(jump_line_str) - 1, 0), Len(json_lines) - 1)
          /\ start_line' = 0]_vars

\* the scroll positions of a record of n_lines lines on n_rows rows
Positions(n_lines, n_rows) == Max(n_lines - (n_rows - 6), 1)

\* C18 (as claimed): from every state of the viewer, UP and DOWN leave the
\* scroll offset at 0 when the record's lines fit in one screenful, and step
\* it by -1 and +1 modulo the number of scroll positions when they do not.
C18_ScrollClampedOrCyclic ==
    [][/\ KeyDown =>
            start_line' = IF Positions(Len(lines), rows) = 1 THEN 0
                          ELSE (start_line + 1) % Positions(Len(lines), rows)
       /\ KeyUp =>
            start_line' = IF Positions(Len(lines), rows) = 1 THEN 0
                          ELSE (start_line - 1) % Positions(Len(lines), rows)]_vars

\* C23 (as claimed): after every event of the viewer the scroll offset is the
\* number of a line of the active view of the record shown, and the line
\* offset of a search result is a line of the record the result names.
C23_ScrollOffsetInsideRecord ==
    viewing =>
        /\ 0 <= start_line /\ start_line < Len(lines)
        /\ (searched.r >= 0 /\ searched.found[1] < Len(json_lines)) =>
              /\ 0 <= searched.found[2]
              /\ searched.found[2] < Len(ActiveView(searched.found[1], cols))

\* C24: a search with a non-empty query from position (r, l) returns the
\* sentinel (0, 0) or a position of a record of the file that is greater than
\* (r, l) in lexicographic order; so with Enter pressed again and again on the
\* same non-empty query, from any position, the sentinel is returned after
\* finitely many presses.
C24_SearchMakesProgress ==
    /\ []((searched.r >= 0 /\ searched.q # <<>>) =>
             \/ searched.found = <<0, 0>>
             \/ /\ searched.found[1] < Len(json_lines)
                /\ \/ searched.found[1] > searched.r
                   \/ searched.found[1] = searched.r /\ searched.found[2] > searched.l)
    /\ [](search_str # <<>> => <>(searched.r >= 0 /\ searched.found = <<0, 0>>))

\* Enter on a non-empty query from a line below the top of a record, with no
\* match left: the sentinel
C24_Witness ==
    /\ searched.q # <<>>
    /\ searched.l > 0
    /\ searched.found = <<0, 0>>

\* C19: TAB changes the mode and nothing else of the viewer's position and
\* buffers: SEARCH and JUMP take turns, so that two TABs restore the mode,
\* and showSkeleton, the record index, the scroll offset, the search buffer
\* and the jump buffer stay.  Insert flips showSkeleton and leaves the mode,
\* the record index, the search buffer and the jump buffer.
C19_ModeAndToggleIndependent ==
    [][/\ KeyTab =>
            /\ selected_mode' # selected_mode
            /\ (selected_mode' + 1) % 2 = selected_mode
            /\ UNCHANGED <<show_values, selected_data, start_line, search_str, jump_line_str>>
       /\ KeyInsert =>
            /\ show_values' = ~show_values
            /\ UNCHANGED <<selected_mode, selected_data, search_str, jump_line_str>>]_vars

\* back in SEARCH mode after two TABs, with the digit typed in JUMP mode still
\* in the jump buffer, the skeleton shown, on the second record
C19_Witness ==
    /\ viewing
    /\ selected_mode = 0 /\ jump_line_str # <<>> /\ search_str # <<>>
    /\ ~show_values
    /\ selected_data = 1

----------------------------------------------------------------------------
(* Claims about the text wrapper, under SpecWrap *)

\* the display width of a text: 1 for a code point below 128, 2 for any other
RECURSIVE display_width(_)
display_width(text) ==
    IF text = <<>> THEN 0
    ELSE (IF Head(text) < 128 THEN 1 ELSE 2) + display_width(Tail(text))

\* C20 (as claimed): for every width w >= 1, every segment of wrap(s, w) has
\* display width at most w, w = 1 with width-2 characters included, and the
\* segments concatenated in order are s.
C20_SegmentsWithinWidth ==
    wrapped # NoWrap =>
        /\ \A i \in DOMAIN wrapped.result : display_width(wrapped.result[i]) <= wrapped.n
        /\ Flatten(wrapped.result) = wrapped.s

\* C20 (amended): for every width w >= 1 the segments of wrap(s, w)
\* concatenated in order are s, and every segment has display width at most
\* w, except that for w = 1 a width-2 character is a segment of its own, of
\* width 2.
C20_SegmentsWithinWidthOrOneWide ==
    wrapped # NoWrap =>
        /\ \A i \in DOMAIN wrapped.result :
              \/ display_width(wrapped.result[i]) <= wrapped.n
              \/ /\ wrapped.n = 1
                 /\ Len(wrapped.result[i]) = 1
                 /\ display_width(wrapped.result[i]) = 2
        /\ Flatten(wrapped.result) = wrapped.s

\* a string of narrow and wide characters wrapped at width 1: a wide
\* character is a segment of its own
C20_Witness ==
    /\ wrapped.n = 1
    /\ \E i \in DOMAIN wrapped.s : wrapped.s[i] < 128
    /\ \E i \in DOMAIN wrapped.result :
          Len(wrapped.result[i]) = 1 /\ display_width(wrapped.result[i]) = 2

----------------------------------------------------------------------------
(* Claims about the skeleton rendering, under SpecSkeleton *)

\* a value with every value that is no object and no array replaced by its
\* type, the structure kept
RECURSIVE Skeleton(_)
Skeleton(v) ==
    CASE v.k = "dict" -> [v EXCEPT !.vals = [i \in DOMAIN v.vals |-> Skeleton(v.vals[i])]]
      [] v.k = "list" -> [v EXCEPT !.items = [i \in DOMAIN v.items |-> Skeleton(v.items[i])]]
      [] OTHER -> [k |-> "type", name |-> v.k]

\* C21 (as claimed): the skeleton form of a parsed value keeps the objects
\* and arrays and shows every other value as its unquoted type name: the
\* members of objects, the elements of arrays and a top-level scalar.
C21_SkeletonReplacesEveryLeaf ==
    call.computed =>
        call.skeleton = wrap_lines(json_dumps(Skeleton(json_lines[1]), 0), call.width)

====
